---- MODULE Spec2Model ----
(***************************************************************************)
(* The brute-force KNN regressor of knn_workshop.ipynb (class KNN: fit,    *)
(* predict and its three helpers) and the notebook's data-load, outlier-   *)
(* filter and feature-selection cells, as state machines.                  *)
(*                                                                         *)
(* Numbers.  Coordinates, targets and prices are small naturals.  A mean   *)
(* is kept exactly, as a fraction <<num, den>> in lowest terms; the result *)
(* of np.mean on an empty selection (nan) is NaN.  A Euclidean distance is *)
(* kept as its square: the square root is strictly increasing, so          *)
(* comparing and sorting squares is comparing and sorting the distances.   *)
(* A percentile is kept multiplied by 100 (np.percentile interpolates      *)
(* linearly between two data points in steps of 1/100 for q = 10 and 90).  *)
(***************************************************************************)
EXTENDS Integers, Sequences, FiniteSets

\* ---------------------------------------------------------------- bounds
MaxCells == 2      \* numbers in a feature array (rows * columns), targets in a target array
MaxCoord == 1      \* largest coordinate
MaxTarget == 1     \* largest target value
MaxRows == 4       \* rows of the housing table
MaxPrice == 3      \* largest price in the housing table

Coord == 0..MaxCoord
Target == 0..MaxTarget

\* Two-dimensional feature arrays: every row has the same length (the column
\* count d >= 1).  An array without rows is <<>> whatever its column count.
Arrays ==
    LET Shapes == {sh \in (0..MaxCells) \X (1..MaxCells) : sh[1] * sh[2] <= MaxCells}
    IN UNION { [1..sh[1] -> [1..sh[2] -> Coord]] : sh \in Shapes }

TargetArrays == UNION { [1..r -> Target] : r \in 0..MaxCells }

\* The neighbour counts a caller may pass: 0, the valid ones, and one too many.
Ks == 0..(MaxCells + 1)

\* np.argsort's default kind is "quicksort", which is documented as not
\* stable: where equal keys end up is decided by the numpy build.  A build
\* is deterministic, so the order is one fixed choice per build.
ArgsortBuilds == {"ties_ascending", "ties_descending"}

VARIABLES
    knn,          \* the KNN object: whether fit has set its attributes, X_train, y_train
    build,        \* how this numpy build's argsort orders equal keys
    call,         \* the most recent method call on knn and its arguments
    ret,          \* how that call ended: status, and the value returned
    fitted_with,  \* the arguments of the most recent fit call
    fits,         \* fit calls so far: 0, 1, or 2 for two and more
    csv,          \* the price column of data/kc-house-data.zip
    globals,      \* the notebook kernel's namespace: name -> value
    cell          \* the most recent cell run and how it ended

vars == <<knn, build, call, ret, fitted_with, fits, csv, globals, cell>>
knnVars == <<knn, build, call, ret, fitted_with, fits>>
nbVars == <<csv, globals, cell>>

\* ------------------------------------------------------------ arithmetic
RECURSIVE GCD(_, _)
GCD(a, b) == IF b = 0 THEN a ELSE GCD(b, a % b)

RECURSIVE SumSeq(_)
SumSeq(s) == IF s = <<>> THEN 0 ELSE Head(s) + SumSeq(Tail(s))

NaN == <<0, 0>>
Zero == <<0, 1>>

\* num/den in lowest terms (den > 0, num >= 0).
Frac(num, den) == LET g == GCD(num, den) IN <<num \div g, den \div g>>

\* ------------------------------------------------------------- outcomes
Ok(v) == [status |-> "ok", value |-> v]
Raise(e) == [status |-> e, value |-> <<>>]

\* scipy.spatial.distance.euclidean, squared: it raises ValueError when the
\* two vectors differ in length.
euc(u, v) ==
    IF Len(u) # Len(v) THEN Raise("ValueError")
    ELSE Ok(SumSeq([i \in 1..Len(u) |-> (u[i] - v[i]) * (u[i] - v[i])]))

\* np.mean with the division left out (np.sum).
np_mean_as_sum(s) == IF s = <<>> THEN NaN ELSE <<SumSeq(s), 1>>

\* np.mean of a one-dimensional selection.
np_mean(s) == IF s = <<>> THEN NaN ELSE Frac(SumSeq(s), Len(s))

\* np.argsort(distances): the indices 1..n in ascending order of distance,
\* equal distances in the order of the build.
np_argsort(distances, b) ==
    LET n == Len(distances)
        before(i, j) ==
            \/ distances[i] < distances[j]
            \/ /\ distances[i] = distances[j]
               /\ IF b = "ties_ascending" THEN i < j ELSE i > j
        pos(i) == 1 + Cardinality({j \in 1..n : before(j, i)})
    IN [p \in 1..n |-> CHOOSE i \in 1..n : pos(i) = p]

\* A Python slice s[:k] for k >= 0.
SliceTo(s, k) == SubSeq(s, 1, IF k < Len(s) THEN k ELSE Len(s))

\* ----------------------------------------------------------- class KNN
\* fit that assigns y_train only on the first call.
fit_keeps_first_targets(self, X, y) ==
    [fitted |-> TRUE, X_train |-> X,
     y_train |-> IF self.fitted THEN self.y_train ELSE y]

\* KNN.fit: both attributes are assigned, nothing is checked or computed.
fit(self, X, y) == [fitted |-> TRUE, X_train |-> X, y_train |-> y]

\* KNN._get_distances: the read of self.X_train raises AttributeError on an
\* object fit has never been called on; euc raises on a length mismatch.
_get_distances(self, x) ==
    IF ~self.fitted THEN Raise("AttributeError")
    ELSE LET ds == [i \in 1..Len(self.X_train) |-> euc(x, self.X_train[i])]
         IN IF \E i \in 1..Len(ds) : ds[i].status # "ok"
            THEN Raise("ValueError")
            ELSE Ok([i \in 1..Len(ds) |-> ds[i].value])

\* _get_k_nearest with the slice one too long.
_get_k_nearest_one_more(distances, k, b) == SliceTo(np_argsort(distances, b), k + 1)

\* KNN._get_k_nearest
_get_k_nearest(distances, k, b) == SliceTo(np_argsort(distances, b), k)

\* KNN._get_predicted_value: indexing y_train past its end raises IndexError.
_get_predicted_value(self, k_nearest) ==
    IF \E i \in 1..Len(k_nearest) : k_nearest[i] > Len(self.y_train)
    THEN Raise("IndexError")
    ELSE Ok(np_mean([i \in 1..Len(k_nearest) |-> self.y_train[k_nearest[i]]]))

\* The body of predict's loop for one point.
predict_point(self, point, k, b) ==
    LET distances == _get_distances(self, point)
    IN IF distances.status # "ok" THEN distances
       ELSE _get_predicted_value(self, _get_k_nearest(distances.value, k, b))

\* predict's loop taking the batch's first row at every turn.
RECURSIVE predict_loop_first_row(_, _, _, _, _, _)
predict_loop_first_row(self, X_test, k, b, i, predictions) ==
    IF i > Len(X_test) THEN Ok(predictions)
    ELSE LET prediction == predict_point(self, X_test[1], k, b)
         IN IF prediction.status # "ok" THEN prediction
            ELSE predict_loop_first_row(self, X_test, k, b, i + 1,
                                        [predictions EXCEPT ![i] = prediction.value])

\* predict's loop from row i on, predictions being the array filled so far.
RECURSIVE predict_loop(_, _, _, _, _, _)
predict_loop(self, X_test, k, b, i, predictions) ==
    IF i > Len(X_test) THEN Ok(predictions)
    ELSE LET prediction == predict_point(self, X_test[i], k, b)
         IN IF prediction.status # "ok" THEN prediction
            ELSE predict_loop(self, X_test, k, b, i + 1,
                              [predictions EXCEPT ![i] = prediction.value])

\* KNN.predict
predict(self, X_test, k, b) ==
    predict_loop(self, X_test, k, b, 1, [i \in 1..Len(X_test) |-> Zero])

\* --------------------------------------------------- numpy on a column
\* np.sort of a one-dimensional array.
np_sort(a) ==
    LET order == np_argsort(a, "ties_ascending")
    IN [p \in 1..Len(a) |-> a[order[p]]]

\* np.percentile(a, q), times 100: linear interpolation between the two
\* order statistics around position (n - 1) * q / 100 (counted from 0).
np_percentile(a, q) ==
    LET s == np_sort(a)
        n == Len(a)
        h == (n - 1) * q
        lo == (h \div 100) + 1
        hi == IF lo < n THEN lo + 1 ELSE n
    IN 100 * s[lo] + (h % 100) * (s[hi] - s[lo])

\* ----------------------------------------------------- notebook kernel
Defined(g, name) == name \in DOMAIN g

\* The namespace after the assignment name = v.
Assign(g, name, v) ==
    [n \in DOMAIN g \cup {name} |-> IF n = name THEN v ELSE g[n]]

\* house_data = pd.read_csv('data/kc-house-data.zip'): the price column.
load_cell(g, file) ==
    [globals |-> Assign(g, "house_data", file), status |-> "ok"]

\* The rows of a table whose price lies strictly between two bounds (the
\* bounds are percentiles, held times 100).
rows_between(prices, low, high) ==
    LET Inside(p) == 100 * p > low /\ 100 * p < high
    IN SelectSeq(prices, Inside)

\* The outlier-filter cell.  It assigns bottom_10 and top_10; the filter
\* expression then reads bottom_5 and top_5, and a name the namespace does
\* not hold raises NameError, which ends the cell with house_data as it was.
filter_cell(g) ==
    IF ~Defined(g, "house_data") THEN [globals |-> g, status |-> "NameError"]
    ELSE LET g1 == Assign(g, "bottom_10", np_percentile(g["house_data"], 10))
             g2 == Assign(g1, "top_10", np_percentile(g["house_data"], 90))
         IN IF ~Defined(g2, "bottom_5") \/ ~Defined(g2, "top_5")
            THEN [globals |-> g2, status |-> "NameError"]
            ELSE [globals |-> Assign(g2, "house_data",
                                     rows_between(g2["house_data"],
                                                  g2["bottom_5"], g2["top_5"])),
                  status |-> "ok"]

\* The feature-selection cell: y = house_data['price'].values.
feature_cell(g) ==
    IF ~Defined(g, "house_data") THEN [globals |-> g, status |-> "NameError"]
    ELSE [globals |-> Assign(g, "y", g["house_data"]), status |-> "ok"]

\* ------------------------------------------------------------- actions
NoCall == [op |-> "new", X_test |-> <<>>, k |-> 0]
Unfitted == [fitted |-> FALSE, X_train |-> <<>>, y_train |-> <<>>]
NoGlobals == [n \in {} |-> 0]
NoCell == [name |-> "none", status |-> "ok"]

\* How many fit calls the object has seen, counted up to 2.
Counted(n) == IF n < 2 THEN n + 1 ELSE 2

Init ==
    /\ knn = Unfitted
    /\ build \in ArgsortBuilds
    /\ call = NoCall
    /\ ret = Ok(<<>>)
    /\ fitted_with = <<>>
    /\ fits = 0
    /\ csv = <<1>>
    /\ globals = NoGlobals
    /\ cell = NoCell

Fit ==
    \E X \in Arrays, y \in TargetArrays :
        /\ knn' = fit(knn, X, y)
        /\ call' = [op |-> "fit", X_test |-> <<>>, k |-> 0]
        /\ ret' = Ok(<<>>)
        /\ fitted_with' = <<X, y>>
        /\ fits' = Counted(fits)
        /\ UNCHANGED <<build, nbVars>>

\* predict that keeps the queries in place of the training features.
PredictStoresQueries ==
    \E X_test \in Arrays, k \in Ks :
        /\ call' = [op |-> "predict", X_test |-> X_test, k |-> k]
        /\ ret' = predict(knn, X_test, k, build)
        /\ knn' = [knn EXCEPT !.X_train = X_test]
        /\ UNCHANGED <<build, fitted_with, fits, nbVars>>

Predict ==
    \E X_test \in Arrays, k \in Ks :
        /\ call' = [op |-> "predict", X_test |-> X_test, k |-> k]
        /\ ret' = predict(knn, X_test, k, build)
        /\ UNCHANGED <<knn, build, fitted_with, fits, nbVars>>

Next == Fit \/ Predict

Spec == Init /\ [][Next]_vars

\* ------------------------------------------------ the notebook's cells
PriceColumns == UNION { [1..r -> 1..MaxPrice] : r \in 1..MaxRows }

NotebookInit ==
    /\ knn = Unfitted
    /\ build = "ties_ascending"
    /\ call = NoCall
    /\ ret = Ok(<<>>)
    /\ fitted_with = <<>>
    /\ fits = 0
    /\ csv \in PriceColumns
    /\ globals = NoGlobals
    /\ cell = NoCell

RunLoadCell ==
    LET r == load_cell(globals, csv)
    IN /\ globals' = r.globals
       /\ cell' = [name |-> "load", status |-> r.status]
       /\ UNCHANGED <<csv, knnVars>>

RunFilterCell ==
    LET r == filter_cell(globals)
    IN /\ globals' = r.globals
       /\ cell' = [name |-> "filter", status |-> r.status]
       /\ UNCHANGED <<csv, knnVars>>

RunFeatureCell ==
    LET r == feature_cell(globals)
    IN /\ globals' = r.globals
       /\ cell' = [name |-> "features", status |-> r.status]
       /\ UNCHANGED <<csv, knnVars>>

NotebookNext == RunLoadCell \/ RunFilterCell \/ RunFeatureCell

NotebookSpec == NotebookInit /\ [][NotebookNext]_vars

\* ------------------------------------------------------------ properties
n_train == Len(knn.X_train)

\* fit was given as many targets as feature rows.
WellFormed == knn.fitted /\ Len(knn.X_train) = Len(knn.y_train)

\* Every query of the last call has the training rows' column count.
QueriesMatch ==
    \A i \in 1..Len(call.X_test), j \in 1..n_train :
        Len(call.X_test[i]) = Len(knn.X_train[j])

\* The squared distance from query x to training row j (same column count).
Dist(x, j) == euc(x, knn.X_train[j]).value

RECURSIVE SumTargets(_)
SumTargets(S) ==
    IF S = {} THEN 0
    ELSE LET j == CHOOSE j \in S : TRUE
         IN knn.y_train[j] + SumTargets(S \ {j})

\* S holds k training rows none of which is farther from x than a row outside S.
KNearest(S, x, k) ==
    /\ Cardinality(S) = k
    /\ \A a \in S, c \in (1..n_train) \ S : Dist(x, a) <= Dist(x, c)

\* The spec's end-to-end example.
ExampleX == << <<0, 0>>, <<10, 0>>, <<0, 10>> >>
ExampleY == <<10, 20, 30>>
ExampleModel == fit(Unfitted, ExampleX, ExampleY)

\* C1: for a fitted model (as many targets as rows), queries of the training
\* dimensionality and 1 <= k <= n_train, predict returns for each query the
\* mean of the targets of k training rows at the smallest distances from it;
\* on the example, the query [1,0] gives 10 for k = 1 and 20 for k = 3.
C1_MeanOfKNearest ==
    /\ (call.op = "predict" /\ WellFormed /\ QueriesMatch
            /\ 1 <= call.k /\ call.k <= n_train)
       => /\ ret.status = "ok"
          /\ Len(ret.value) = Len(call.X_test)
          /\ \A i \in 1..Len(call.X_test) :
                \E S \in SUBSET (1..n_train) :
                    /\ KNearest(S, call.X_test[i], call.k)
                    /\ ret.value[i] = Frac(SumTargets(S), call.k)
    /\ predict(ExampleModel, << <<1, 0>> >>, 1, build) = Ok(<< <<10, 1>> >>)
    /\ predict(ExampleModel, << <<1, 0>> >>, 3, build) = Ok(<< <<20, 1>> >>)

\* C1's case: two training rows at different distances from the query, k = 1,
\* and the prediction is the nearer row's target, which differs from the other's.
C1_Witness ==
    /\ call.op = "predict" /\ WellFormed /\ QueriesMatch
    /\ n_train = 2 /\ call.k = 1 /\ Len(call.X_test) = 1
    /\ Dist(call.X_test[1], 2) < Dist(call.X_test[1], 1)
    /\ knn.y_train = <<0, 1>>
    /\ ret = Ok(<< <<1, 1>> >>)

\* C2: predict with k = 0 or k > n_train on a fitted model raises and returns
\* no prediction.
C2_InvalidKRaises ==
    (call.op = "predict" /\ knn.fitted /\ (call.k = 0 \/ call.k > n_train))
        => ret.status # "ok"

\* C3: predict on an object fit was never called on raises, for every query
\* batch (the empty one included) and every k.
C3_UnfittedPredictRaises ==
    (call.op = "predict" /\ ~knn.fitted) => ret.status # "ok"

C5_FitLengthMismatchRaises ==
    (call.op = "fit" /\ Len(fitted_with[1]) # Len(fitted_with[2]))
        => ret.status # "ok"

\* C6: a predict call leaves the stored training features and targets as they
\* were, and a predict call with the arguments of the predict call before it
\* ends as that one did.
C6_PredictReadOnly ==
    [][call'.op = "predict" =>
          /\ knn' = knn
          /\ (call.op = "predict" /\ call'.X_test = call.X_test /\ call'.k = call.k)
                => ret' = ret]_vars

\* C6's case: a fitted model has answered a predict call with a prediction.
C6_Witness ==
    /\ call.op = "predict" /\ WellFormed /\ n_train = 2
    /\ ret.status = "ok" /\ Len(ret.value) = 2

\* C7: for a fitted model (as many targets as rows, at least one) and
\* k = n_train, predict returns the mean of all training targets for every
\* query of the training dimensionality.
C7_AllNeighboursMean ==
    (call.op = "predict" /\ WellFormed /\ QueriesMatch
        /\ n_train >= 1 /\ call.k = n_train)
    => /\ ret.status = "ok"
       /\ \A i \in 1..Len(call.X_test) :
            ret.value[i] = Frac(SumSeq(knn.y_train), n_train)

\* C7's case: two training rows at different distances from the query, with
\* different targets, and k = 2.
C7_Witness ==
    /\ call.op = "predict" /\ WellFormed /\ QueriesMatch
    /\ n_train = 2 /\ call.k = 2 /\ Len(call.X_test) = 1
    /\ Dist(call.X_test[1], 1) # Dist(call.X_test[1], 2)
    /\ knn.y_train = <<0, 1>>
    /\ ret = Ok(<< <<1, 2>> >>)

\* C8: a predict call that returns gives one prediction per query, the i-th
\* being what predict returns for the i-th query alone with the same k; under
\* predict's preconditions it does return.
C8_BatchIsPointwise ==
    /\ (call.op = "predict" /\ WellFormed /\ QueriesMatch
            /\ 1 <= call.k /\ call.k <= n_train)
       => ret.status = "ok"
    /\ (call.op = "predict" /\ ret.status = "ok")
       => /\ Len(ret.value) = Len(call.X_test)
          /\ \A i \in 1..Len(call.X_test) :
                predict(knn, <<call.X_test[i]>>, call.k, build) = Ok(<<ret.value[i]>>)

\* C8's case: a batch of two different queries with different predictions.
C8_Witness ==
    /\ call.op = "predict" /\ WellFormed /\ ret.status = "ok"
    /\ Len(call.X_test) = 2 /\ call.X_test[1] # call.X_test[2]
    /\ call.k = 1
    /\ ret.value[1] # ret.value[2]

\* C9: after the outlier-filter cell has run on the loaded table, house_data
\* holds exactly the rows priced strictly between the 10th and the 90th
\* percentile of the loaded prices.
C9_FilterKeepsMiddle ==
    (cell.name = "filter" /\ Defined(globals, "house_data"))
    => /\ cell.status = "ok"
       /\ globals["house_data"] =
            rows_between(csv, np_percentile(csv, 10), np_percentile(csv, 90))

\* C10: the stored features and targets are those of the most recent fit
\* call, and a predict call ends as it does on a fresh object fitted with the
\* most recent fit call's arguments alone.
C10_LatestFitOnly ==
    /\ knn.fitted => (knn.X_train = fitted_with[1] /\ knn.y_train = fitted_with[2])
    /\ (call.op = "predict" /\ knn.fitted)
       => ret = predict(fit(Unfitted, fitted_with[1], fitted_with[2]),
                        call.X_test, call.k, build)

\* C10's case: fit has been called at least twice and a later predict returned
\* a prediction.
C10_Witness ==
    /\ fits = 2 /\ call.op = "predict" /\ WellFormed /\ n_train = 2
    /\ ret.status = "ok" /\ Len(ret.value) = 1 /\ call.k = 1

====
